---- MODULE Spec2Model ----
(***************************************************************************)
(* Model of tinyland-activity-feed: the configuration store (config.ts)    *)
(* and the aggregation / query layer (feed.ts).                            *)
(*                                                                         *)
(* Text that is searched or compared character-wise (title, slug, excerpt, *)
(* author, tags, tag and search arguments) is a sequence of one-character  *)
(* strings.  Other strings (category, dates, role, ...) are atomic.        *)
(* A missing object key / `undefined` is the sentinel Undefined (atomic    *)
(* strings), UndefinedText (text) or NoArray (optional arrays).            *)
(***************************************************************************)
EXTENDS Integers, Sequences, FiniteSets, TLC

VARIABLES _config, clock, call, last

vars == <<_config, clock, call, last>>

----------------------------------------------------------------------------
(* Bounds of the model *)

\* total number of raw items the loaders return during one query
MaxItems == 2
\* last wall-clock instant (index into IsoTable) the clock may reach
MaxClock == 5
\* largest explicit limit argument tried
MaxLimit == 1

----------------------------------------------------------------------------
(* JavaScript values *)

Undefined == "<undefined>"
UndefinedText == <<"<undefined>">>
NoArray == <<>>
Arr(a) == <<a>>

\* truthiness of an optional atomic string / an optional text
Truthy(s) == s # Undefined /\ s # ""
TruthyText(t) == t # UndefinedText /\ t # <<>>

\* a || b on optional atomic strings / on optional texts
Or(a, b) == IF Truthy(a) THEN a ELSE b
OrText(a, b) == IF TruthyText(a) THEN a ELSE b
\* a || b on optional arrays (every array, even [], is truthy)
OrArr(a, b) == IF a # NoArray THEN a ELSE b

----------------------------------------------------------------------------
(* Dates: Date.prototype.toISOString, Date parsing, getTime *)

\* instant i of the model's time line, as toISOString prints it
IsoTable == << "2025-01-01T00:00:00.000Z", "2025-02-01T00:00:00.000Z",
               "2025-03-01T00:00:00.000Z", "2025-04-01T00:00:00.000Z",
               "2025-05-01T00:00:00.000Z", "2025-06-01T00:00:00.000Z",
               "2025-07-01T00:00:00.000Z", "2025-08-01T00:00:00.000Z" >>

\* the same instants in the date-only ISO form (parsed as UTC midnight)
DateOnlyTable == << "2025-01-01", "2025-02-01", "2025-03-01", "2025-04-01",
                    "2025-05-01", "2025-06-01", "2025-07-01", "2025-08-01" >>

\* getTime() of an invalid Date
NaN == -1

\* new Date(ms).toISOString()
toISOString(t) == IsoTable[t]

\* new Date(s).getTime()
getTime(s) ==
  IF \E i \in DOMAIN IsoTable : IsoTable[i] = s
    THEN CHOOSE i \in DOMAIN IsoTable : IsoTable[i] = s
    ELSE IF \E i \in DOMAIN DateOnlyTable : DateOnlyTable[i] = s
      THEN CHOOSE i \in DOMAIN DateOnlyTable : DateOnlyTable[i] = s
      ELSE NaN

----------------------------------------------------------------------------
(* Raw source items (types.ts) *)

T_sv == <<"s", "v">>
T_Sv == <<"S", "v">>
T_Svt == <<"S", "v", "t">>
T_jd == <<"J", "d">>
T_x == <<"x">>

NullItem == [null |-> TRUE]
IsNull(raw) == "null" \in DOMAIN raw

AuthorObject(name) == [kind |-> "object", name |-> name]
AuthorString(s) == [kind |-> "string", name |-> s]
AuthorUndefined == [kind |-> "undefined", name |-> UndefinedText]
AuthorNull == [kind |-> "null", name |-> UndefinedText]

BlogPostItem(title, slug, excerpt, description, date, publishedAt, author, category, categories, tags, published, draft) ==
  [ title |-> title, slug |-> slug, excerpt |-> excerpt,
    description |-> description, date |-> date, publishedAt |-> publishedAt,
    featuredImage |-> Undefined, coverImage |-> Undefined,
    heroImage |-> Undefined, author |-> author, category |-> category,
    categories |-> categories, tags |-> tags, published |-> published,
    draft |-> draft ]

ProfileItem(name, displayName, slug, bio, publishedAt, updatedAt, joinedDate, role, tags, interests) ==
  [ name |-> name, displayName |-> displayName, slug |-> slug, bio |-> bio,
    publishedAt |-> publishedAt, updatedAt |-> updatedAt,
    joinedDate |-> joinedDate, avatar |-> Undefined, imageUrl |-> Undefined,
    role |-> role, tags |-> tags, interests |-> interests ]

ProductItem(name, slug, excerpt, description, publishedAt, updatedAt, category, tags, license) ==
  [ name |-> name, slug |-> slug, excerpt |-> excerpt,
    description |-> description, publishedAt |-> publishedAt,
    updatedAt |-> updatedAt, image |-> Undefined, category |-> category,
    tags |-> tags, license |-> license ]

\* a published post dated by the date-only form, author given as an object
PostTech ==
  BlogPostItem(T_Svt, <<"p", "1">>, T_x, UndefinedText, "2025-01-01",
               Undefined, AuthorObject(T_jd), Undefined, Arr(<<"Tech">>),
               Arr(<<T_sv>>), "true", Undefined)
\* a draft
PostDraft ==
  BlogPostItem(T_sv, <<"p", "2">>, UndefinedText, UndefinedText,
               "2025-03-01", Undefined, AuthorString(T_jd), "Tech", NoArray,
               Arr(<<T_sv>>), Undefined, "true")
\* a post with no date field, no author, no tags, an empty title
PostBare ==
  BlogPostItem(<<>>, <<"m", "y">>, UndefinedText, UndefinedText, Undefined,
               Undefined, AuthorUndefined, "tech", NoArray, NoArray,
               Undefined, Undefined)

ProfJane ==
  ProfileItem(T_jd, UndefinedText, <<"j">>, T_x, "2025-04-01T00:00:00.000Z",
              Undefined, Undefined, "admin", Arr(<<T_Sv>>), NoArray)
ProdTool ==
  ProductItem(T_Svt, <<"t">>, UndefinedText, T_x, "2025-04-01", Undefined,
              "tools", Arr(<<T_sv>>), "MIT")
\* a product whose only date cannot be parsed, with an empty tags array
ProdJunk ==
  ProductItem(T_x, <<"k">>, UndefinedText, UndefinedText, Undefined,
              "not-a-date", "Tech", Arr(<<>>), Undefined)

Slots == {"loadBlogPosts", "loadProfiles", "loadProducts"}

\* raw values a loader of each slot may put into the array it returns;
\* NullItem stands for an entry whose normalization throws
RawItems(slot) ==
  CASE slot = "loadBlogPosts" -> {PostTech, PostDraft, PostBare}
    [] slot = "loadProfiles" -> {ProfJane, NullItem}
    [] slot = "loadProducts" -> {ProdTool, ProdJunk}

----------------------------------------------------------------------------
(* Normalizers (feed.ts) *)

T_Unknown == <<"U", "n", "k", "n", "o", "w", "n">>
T_CommunityMember ==
  <<"C", "o", "m", "m", "u", "n", "i", "t", "y", " ",
    "M", "e", "m", "b", "e", "r">>

ActivityItem(type, title, slug, excerpt, date, image, author, category, tags, productCategory, profileRole, license) ==
  [ type |-> type, title |-> title, slug |-> slug, excerpt |-> excerpt,
    date |-> date, image |-> image, author |-> author,
    category |-> category, tags |-> tags,
    productCategory |-> productCategory, profileRole |-> profileRole,
    license |-> license ]

\* post.published === false || post.draft === true
\* a test with == in place of ===
PostExcludedLoosely(post) ==
  post.published \in {"false", "0"} \/ post.draft \in {"true", "1"}

\* post.published === false || post.draft === true; the booleans are
\* "true" and "false", "0" and "1" are the numbers
PostExcluded(post) == post.published = "false" \/ post.draft = "true"

\* the date fields tried before new Date() is evaluated
PostDateFields(post) == Or(post.date, post.publishedAt)
\* a fallback chain that leaves out publishedAt
ProfileDateFieldsWithoutPublishedAt(profile) ==
  Or(profile.updatedAt, profile.joinedDate)

ProfileDateFields(profile) ==
  Or(Or(profile.publishedAt, profile.updatedAt), profile.joinedDate)
ProductDateFields(product) == Or(product.publishedAt, product.updatedAt)

\* post.categories?.[0]
FirstCategory(post) ==
  IF post.categories = NoArray THEN Undefined
  ELSE IF Len(post.categories[1]) = 0 THEN Undefined
  ELSE post.categories[1][1]

\* a default that applies to a missing author only (?? in place of ||)
PostAuthorNullish(post) ==
  IF post.author.kind = "object" THEN post.author.name
  ELSE IF post.author.name = UndefinedText THEN T_Unknown
  ELSE post.author.name

\* typeof post.author === 'object' && post.author !== null
\*   ? post.author.name : post.author || 'Unknown'
PostAuthor(post) ==
  IF post.author.kind = "object" THEN post.author.name
  ELSE OrText(post.author.name, T_Unknown)

\* a normalizer that leaves out the final || '' of the excerpt
blogPostToActivityWithoutExcerptDefault(post, now) ==
  ActivityItem("post", OrText(post.title, post.slug), post.slug,
               OrText(post.excerpt, post.description),
               Or(PostDateFields(post), now),
               Or(Or(post.featuredImage, post.coverImage), post.heroImage),
               PostAuthor(post),
               Or(FirstCategory(post), post.category),
               OrArr(post.tags, Arr(<<>>))[1],
               Undefined, Undefined, Undefined)

\* now: what new Date().toISOString() returns if it is evaluated
blogPostToActivity(post, now) ==
  ActivityItem("post", OrText(post.title, post.slug), post.slug,
               OrText(OrText(post.excerpt, post.description), <<>>),
               Or(PostDateFields(post), now),
               Or(Or(post.featuredImage, post.coverImage), post.heroImage),
               PostAuthor(post),
               Or(FirstCategory(post), post.category),
               OrArr(post.tags, Arr(<<>>))[1],
               Undefined, Undefined, Undefined)

ProfileName(profile) ==
  OrText(OrText(profile.name, profile.displayName), T_CommunityMember)

profileToActivity(profile, now) ==
  ActivityItem("profile", ProfileName(profile), profile.slug,
               OrText(profile.bio, <<>>),
               Or(ProfileDateFields(profile), now),
               Or(profile.avatar, profile.imageUrl),
               ProfileName(profile), "profile",
               OrArr(OrArr(profile.tags, profile.interests), Arr(<<>>))[1],
               Undefined, profile.role, Undefined)

\* a normalizer that carries the type and the role field of a profile
productToActivityTypedProfile(product, now) ==
  ActivityItem("profile", product.name, product.slug,
               OrText(OrText(product.excerpt, product.description), <<>>),
               Or(ProductDateFields(product), now),
               product.image, UndefinedText, "product",
               OrArr(product.tags, Arr(<<>>))[1],
               product.category, product.category, product.license)

productToActivity(product, now) ==
  ActivityItem("product", product.name, product.slug,
               OrText(OrText(product.excerpt, product.description), <<>>),
               Or(ProductDateFields(product), now),
               product.image, UndefinedText, "product",
               OrArr(product.tags, Arr(<<>>))[1],
               product.category, Undefined, product.license)

\* whether normalizing raw evaluates new Date()
ReadsClock(slot, raw) ==
  IF IsNull(raw) THEN FALSE
  ELSE CASE slot = "loadBlogPosts" ->
              ~PostExcluded(raw) /\ ~Truthy(PostDateFields(raw))
         [] slot = "loadProfiles" -> ~Truthy(ProfileDateFields(raw))
         [] slot = "loadProducts" -> ~Truthy(ProductDateFields(raw))

Normalize(slot, raw, now) ==
  CASE slot = "loadBlogPosts" -> blogPostToActivity(raw, now)
    [] slot = "loadProfiles" -> profileToActivity(raw, now)
    [] slot = "loadProducts" -> productToActivity(raw, now)

----------------------------------------------------------------------------
(* loadAllActivity (feed.ts) *)

\* a loader, described by what a call of it does: it throws, or it returns
\* an array of raw values
Throws == [kind |-> "throw", items |-> <<>>]
Returns(items) == [kind |-> "ok", items |-> items]
\* the slot is not set, no loader is called
NoLoader == [kind |-> "unset", items |-> <<>>]

\* a catch clause that rethrows
catchClauseRethrows(failed) == failed

\* the catch clause of each try block: whether the failure of a source
\* leaves loadAllActivity as an exception
catchClause(failed) == FALSE

\* the body of one for...of loop: activities is the array being pushed to,
\* ticks the clock readings not consumed yet
RECURSIVE forOf(_, _, _, _)
forOf(slot, raws, ticks, activities) ==
  IF raws = <<>>
    THEN [activities |-> activities, ticks |-> ticks, failed |-> FALSE]
  ELSE IF IsNull(raws[1])
    \* reading a property of null throws a TypeError inside the try block
    THEN [activities |-> activities, ticks |-> ticks, failed |-> TRUE]
  ELSE IF slot = "loadBlogPosts" /\ PostExcluded(raws[1])
    THEN forOf(slot, Tail(raws), ticks, activities)
  ELSE IF ReadsClock(slot, raws[1])
    THEN forOf(slot, Tail(raws), Tail(ticks),
               Append(activities,
                      Normalize(slot, raws[1], toISOString(Head(ticks)))))
  ELSE forOf(slot, Tail(raws), ticks,
             Append(activities, Normalize(slot, raws[1], Undefined)))

\* the state of loadAllActivity after a loop that ended as r says
RanLoop(r, invoked) ==
  [activities |-> r.activities, ticks |-> r.ticks,
   threw |-> catchClause(r.failed), invoked |-> invoked]

\* a slot that holds the value undefined: the key is present, the value is
\* falsy
UndefinedLoader == [kind |-> "undefined", items |-> <<>>]

\* a test for the presence of the key
ConfiguredWhenPresent(loader) == loader.kind # "unset"

\* the test `if (config.loadX)`
Configured(loader) == loader.kind \notin {"unset", "undefined"}

\* a block that assigns the items of its source to the array in place of
\* pushing them
loadSourceReplacing(slot, loader, so) ==
  IF so.threw \/ ~Configured(loader) THEN so
  ELSE IF loader.kind = "throw"
    THEN [so EXCEPT !.threw = catchClause(TRUE),
                    !.invoked = Append(so.invoked, slot)]
  ELSE RanLoop(forOf(slot, loader.items, so.ticks, <<>>),
               Append(so.invoked, slot))

\* one `if (config.loadX) { try { ... } catch { } }` block; so holds the
\* array, the unused clock readings and the slots whose loader has been
\* called so far, and whether an exception has left loadAllActivity
loadSource(slot, loader, so) ==
  IF so.threw \/ ~Configured(loader) THEN so
  ELSE IF loader.kind = "throw"
    THEN [so EXCEPT !.threw = catchClause(TRUE),
                    !.invoked = Append(so.invoked, slot)]
  ELSE RanLoop(forOf(slot, loader.items, so.ticks, so.activities),
               Append(so.invoked, slot))

\* what loadAllActivity hands to the sort, or that it threw
Outcome(so) ==
  [activities |-> IF so.threw THEN <<>> ELSE so.activities,
   threw |-> so.threw, invoked |-> so.invoked]

\* the three blocks in order; config is the snapshot getConfig() returned,
\* ticks the successive readings of the clock
concatenated(config, ticks) ==
  Outcome(
    loadSource("loadProducts", config["loadProducts"],
      loadSource("loadProfiles", config["loadProfiles"],
        loadSource("loadBlogPosts", config["loadBlogPosts"],
                   [activities |-> <<>>, ticks |-> ticks, threw |-> FALSE,
                    invoked |-> <<>>]))))

\* number of new Date() evaluations of one aggregation
RECURSIVE clockReads(_, _)
clockReads(slot, raws) ==
  IF raws = <<>> \/ IsNull(raws[1]) THEN 0
  ELSE (IF ReadsClock(slot, raws[1]) THEN 1 ELSE 0)
       + clockReads(slot, Tail(raws))

----------------------------------------------------------------------------
(* Array.prototype.sort with the comparator of loadAllActivity *)

\* dateB - dateA, "nan" when either operand is NaN
difference(dateB, dateA) ==
  IF dateA = NaN \/ dateB = NaN THEN "nan"
  ELSE IF dateB - dateA < 0 THEN "neg"
  ELSE IF dateB - dateA > 0 THEN "pos"
  ELSE "zero"

\* the comparator with its operands swapped (oldest first)
comparefnAscending(a, b) == difference(getTime(a.date), getTime(b.date))

\* (a, b) => new Date(b.date).getTime() - new Date(a.date).getTime()
comparefn(a, b) == difference(getTime(b.date), getTime(a.date))

\* SortCompare: a NaN result of the comparator counts as +0
sortCompare(a, b) ==
  LET v == comparefn(a, b) IN IF v = "nan" THEN "zero" ELSE v

RECURSIVE timestamps(_)
timestamps(arr) ==
  IF arr = <<>> THEN <<>> ELSE <<getTime(arr[1].date)>> \o timestamps(Tail(arr))

\* ECMAScript: the comparator is consistent for the values of the array
\* (here: equality under it is transitive); otherwise the order is
\* implementation-defined
consistentComparator(arr) ==
  LET t == timestamps(arr)
      equal(i, j) == difference(t[j], t[i]) \in {"zero", "nan"}
  IN \A i, j \in DOMAIN arr :
       equal(i, j) => \A k \in DOMAIN arr : equal(j, k) => equal(i, k)

\* stable insertion of x into the sorted array
RECURSIVE insertSorted(_, _)
insertSorted(sorted, x) ==
  IF sorted = <<>> THEN <<x>>
  ELSE IF sortCompare(sorted[Len(sorted)], x) = "pos"
    THEN Append(insertSorted(SubSeq(sorted, 1, Len(sorted) - 1), x),
                sorted[Len(sorted)])
  ELSE Append(sorted, x)

RECURSIVE stableSort(_)
stableSort(arr) ==
  IF arr = <<>> THEN <<>>
  ELSE insertSorted(stableSort(SubSeq(arr, 1, Len(arr) - 1)), arr[Len(arr)])

permutations(arr) ==
  { [i \in DOMAIN arr |-> arr[p[i]]] :
      p \in { q \in [DOMAIN arr -> DOMAIN arr] :
                \A i, j \in DOMAIN arr : i # j => q[i] # q[j] } }

\* the arrays activities.sort(...) may leave behind
sortOutcomes(arr) ==
  IF consistentComparator(arr) THEN {stableSort(arr)} ELSE permutations(arr)

----------------------------------------------------------------------------
(* String operations used by the queries *)

UpperCase == <<"A", "B", "C", "D", "E", "F", "G", "H", "I", "J", "K", "L", "M",
               "N", "O", "P", "Q", "R", "S", "T", "U", "V", "W", "X", "Y", "Z">>
LowerCase == <<"a", "b", "c", "d", "e", "f", "g", "h", "i", "j", "k", "l", "m",
               "n", "o", "p", "q", "r", "s", "t", "u", "v", "w", "x", "y", "z">>

toLowerCase(text) ==
  [i \in DOMAIN text |->
     IF \E k \in DOMAIN UpperCase : UpperCase[k] = text[i]
       THEN LowerCase[CHOOSE k \in DOMAIN UpperCase : UpperCase[k] = text[i]]
       ELSE text[i]]

\* text.includes(sub)
includes(text, sub) ==
  \E i \in 0..(Len(text) - Len(sub)) : SubSeq(text, i + 1, i + Len(sub)) = sub

\* tags.includes(tag)
arrayIncludes(arr, x) == \E i \in DOMAIN arr : arr[i] = x

RECURSIVE trimStart(_)
trimStart(text) ==
  IF text # <<>> /\ text[1] = " " THEN trimStart(Tail(text)) ELSE text

RECURSIVE trimEnd(_)
trimEnd(text) ==
  IF text # <<>> /\ text[Len(text)] = " "
    THEN trimEnd(SubSeq(text, 1, Len(text) - 1))
    ELSE text

trim(text) == trimEnd(trimStart(text))

\* a slice that includes the element at index end
sliceInclusive(arr, end) ==
  LET to == IF end < 0 THEN (IF Len(arr) + end < 0 THEN 0 ELSE Len(arr) + end)
            ELSE (IF end + 1 > Len(arr) THEN Len(arr) ELSE end + 1)
  IN SubSeq(arr, 1, to)

\* arr.slice(0, end)
slice(arr, end) ==
  LET to == IF end < 0 THEN (IF Len(arr) + end < 0 THEN 0 ELSE Len(arr) + end)
            ELSE (IF end > Len(arr) THEN Len(arr) ELSE end)
  IN SubSeq(arr, 1, to)

----------------------------------------------------------------------------
(* Query operations (feed.ts) *)

\* an omitted limit argument
NoLimit == <<>>
Limit(n) == <<n>>

\* default value of the limit parameter of getRecentActivityServer
DefaultLimit == 10

\* limit ? filtered.slice(0, limit) : filtered -- a limit of 0 taken as unset
limitedWhenTruthy(filtered, limit) ==
  IF limit # NoLimit /\ limit[1] # 0 THEN slice(filtered, limit[1])
  ELSE filtered

\* limit !== undefined ? filtered.slice(0, limit) : filtered
limited(filtered, limit) ==
  IF limit # NoLimit THEN slice(filtered, limit[1]) ELSE filtered

\* a type filter that reads the category field
typeMatchesCategory(item, type) == item.category = type

typeMatches(item, type) == item.type = type

\* a category filter that leaves out productCategory
categoryMatchesGeneralOnly(item, category) == item.category = category

categoryMatches(item, category) ==
  item.category = category \/ item.productCategory = category

\* a tag filter that ignores case
tagMatchesIgnoringCase(item, tag) ==
  \E i \in DOMAIN item.tags : toLowerCase(item.tags[i]) = toLowerCase(tag)

tagMatches(item, tag) == arrayIncludes(item.tags, tag)

\* a predicate that compares the fields as they are written
searchMatchesCaseSensitive(item, searchTerm) ==
  \/ includes(item.title, searchTerm)
  \/ includes(item.excerpt, searchTerm)
  \/ (item.author # UndefinedText /\ includes(item.author, searchTerm))
  \/ \E i \in DOMAIN item.tags : includes(item.tags[i], searchTerm)

\* the predicate of the filter of searchActivityServer
searchMatches(item, searchTerm) ==
  \/ includes(toLowerCase(item.title), searchTerm)
  \/ includes(toLowerCase(item.excerpt), searchTerm)
  \/ (item.author # UndefinedText
        /\ includes(toLowerCase(item.author), searchTerm))
  \/ \E i \in DOMAIN item.tags : includes(toLowerCase(item.tags[i]), searchTerm)

\* Array.prototype.filter with the predicate of operation op
RECURSIVE filter(_, _, _)
filter(op, arr, arg) ==
  IF arr = <<>> THEN <<>>
  ELSE LET keep ==
             CASE op = "getActivityByTypeServer" -> typeMatches(arr[1], arg)
               [] op = "getActivityByCategoryServer" ->
                    categoryMatches(arr[1], arg)
               [] op = "getActivityByTagServer" -> tagMatches(arr[1], arg)
               [] op = "searchActivityServer" ->
                    searchMatches(arr[1], toLowerCase(arg))
       IN (IF keep THEN <<arr[1]>> ELSE <<>>) \o filter(op, Tail(arr), arg)

getRecentActivityServer(allActivity, limit) ==
  slice(allActivity, IF limit = NoLimit THEN DefaultLimit ELSE limit[1])

getActivityByTypeServer(allActivity, type, limit) ==
  limited(filter("getActivityByTypeServer", allActivity, type), limit)

getActivityByCategoryServer(allActivity, category, limit) ==
  limited(filter("getActivityByCategoryServer", allActivity, category), limit)

getActivityByTagServer(allActivity, tag, limit) ==
  limited(filter("getActivityByTagServer", allActivity, tag), limit)

\* a test that misses queries made of whitespace
blankQueryUntrimmed(query) == query = <<>>

\* !query || query.trim() === '': the early return before aggregation
blankQuery(query) == query = <<>> \/ trim(query) = <<>>

searchActivityServer(allActivity, query, limit) ==
  limited(filter("searchActivityServer", allActivity, query), limit)

\* what operation op returns once loadAllActivity has returned allActivity
queryResult(op, arg, limit, allActivity) ==
  CASE op = "getRecentActivityServer" ->
         getRecentActivityServer(allActivity, limit)
    [] op = "getActivityByTypeServer" ->
         getActivityByTypeServer(allActivity, arg, limit)
    [] op = "getActivityByCategoryServer" ->
         getActivityByCategoryServer(allActivity, arg, limit)
    [] op = "getActivityByTagServer" ->
         getActivityByTagServer(allActivity, arg, limit)
    [] op = "searchActivityServer" ->
         searchActivityServer(allActivity, arg, limit)

----------------------------------------------------------------------------
(* Inputs: configurations and calls *)

SeqsUpTo(S, n) == UNION { [1..k -> S] : k \in 0..n }

\* the loaders of a slot that return at most n raw values
Loaders(slot, n) ==
  {Throws} \cup { Returns(items) : items \in SeqsUpTo(RawItems(slot), n) }

Config(blog, profiles, products) ==
  [s \in Slots |-> CASE s = "loadBlogPosts" -> blog
                     [] s = "loadProfiles" -> profiles
                     [] s = "loadProducts" -> products]

\* a loader returning more items than the default limit
BulkLoader == Returns([i \in 1..(DefaultLimit + 1) |-> ProfJane])

Slack(n, loader) == IF n < Len(loader.items) THEN 0 ELSE n - Len(loader.items)

Configs ==
  UNION { UNION { { Config(b, p, d) :
                      d \in {NoLoader} \cup
                            Loaders("loadProducts",
                                    Slack(Slack(MaxItems, b), p)) } :
                  p \in {NoLoader} \cup
                        Loaders("loadProfiles", Slack(MaxItems, b)) } :
          b \in {NoLoader} \cup Loaders("loadBlogPosts", MaxItems) }
  \cup { Config(b, BulkLoader, d) :
           b \in {NoLoader, Throws, Returns(<<>>)},
           d \in {NoLoader, Throws, Returns(<<>>)} }

\* limit arguments: omitted, zero, positive; negative ones are tried on
\* getRecentActivityServer
Limits == {NoLimit} \cup { Limit(n) : n \in 0..MaxLimit }
RecentLimits == Limits \cup {Limit(-1), Limit(-2)}
Types == {"post", "profile", "product"}
Categories == {"Tech", "tech", "tools"}
Tags == {T_sv, T_Sv, <<>>}
Queries == {<<>>, <<" ">>, <<"S", "V">>, <<"J", "D">>}

Call(op, type, category, tag, query, limit) ==
  [ op |-> op, type |-> type, category |-> category, tag |-> tag,
    query |-> query, limit |-> limit ]

Calls ==
  { Call("getRecentActivityServer", Undefined, Undefined, <<>>, <<>>, l) :
      l \in RecentLimits }
  \cup { Call("getActivityByTypeServer", t, Undefined, <<>>, <<>>, l) :
           t \in Types, l \in Limits }
  \cup { Call("getActivityByCategoryServer", Undefined, c, <<>>, <<>>, l) :
           c \in Categories, l \in Limits }
  \cup { Call("getActivityByTagServer", Undefined, Undefined, t, <<>>, l) :
           t \in Tags, l \in Limits }
  \cup { Call("searchActivityServer", Undefined, Undefined, <<>>, q, l) :
           q \in Queries, l \in Limits }

\* the argument of the call that its operation filters by
Arg(c) ==
  CASE c.op = "getRecentActivityServer" -> Undefined
    [] c.op = "getActivityByTypeServer" -> c.type
    [] c.op = "getActivityByCategoryServer" -> c.category
    [] c.op = "getActivityByTagServer" -> c.tag
    [] c.op = "searchActivityServer" -> c.query

\* successive readings of a clock that stands at `from'
Readings(from, k) ==
  { t \in [1..k -> from..MaxClock] : \A i \in 1..(k - 1) : t[i] <= t[i + 1] }

----------------------------------------------------------------------------
(* The store and the calls *)

\* a copy that was made when the call before this one began
getConfigCached == [s \in Slots |-> last.before[s]]

\* { ..._config }
getConfig == [s \in Slots |-> _config[s]]

\* new Date() evaluations of loadAllActivity under config
readsOf(config) ==
  clockReads("loadBlogPosts", config["loadBlogPosts"].items)
  + clockReads("loadProfiles", config["loadProfiles"].items)
  + clockReads("loadProducts", config["loadProducts"].items)

\* let _config = {}
EmptyConfig == [s \in Slots |-> NoLoader]

\* the record of the latest call: whether one was made (served), whether it
\* repeated the call before it, whether loadAllActivity ran (loaded) and
\* let an exception out (threw), the clock readings taken, the slots whose
\* loader was called (invoked), the array before and after the sort, the
\* value returned to the caller (result; returned for getConfig, aliased
\* when that object is the store's own), the configuration the call found
\* (before), and the loader that the latest assignment to the store found
\* in loadBlogPosts (displaced)
NotServed ==
  [ served |-> FALSE, repeated |-> FALSE, loaded |-> FALSE, threw |-> FALSE,
    ticks |-> <<>>, invoked |-> <<>>,
    activities |-> <<>>, allActivity |-> <<>>, result |-> <<>>,
    before |-> EmptyConfig, returned |-> EmptyConfig, aliased |-> FALSE,
    displaced |-> NoLoader ]

\* activities.sort(...): the engine's sort is a function of the array, so
\* an array it has sorted before comes out as it did then
sortedBy(activities) ==
  IF last.loaded /\ ~last.threw /\ last.activities = activities
    THEN {last.allActivity}
    ELSE sortOutcomes(activities)

\* the record of a call whose loadAllActivity ended as l says
Loaded(ticks, l) ==
  [NotServed EXCEPT !.served = TRUE, !.repeated = last.served,
                    !.loaded = TRUE, !.threw = l.threw, !.ticks = ticks,
                    !.invoked = l.invoked, !.before = _config,
                    !.displaced = last.displaced]

\* the rest of operation c.op once loadAllActivity has ended as l says
Returned(c, ticks, l) ==
  IF l.threw
    THEN last' = Loaded(ticks, l)
    ELSE \E sorted \in sortedBy(l.activities) :
           last' = [Loaded(ticks, l) EXCEPT
                      !.activities = l.activities,
                      !.allActivity = sorted,
                      !.result = queryResult(c.op, Arg(c), c.limit, sorted)]

\* loadAllActivity() followed by the rest of operation c.op
Load(c) ==
  \E ticks \in Readings(clock, readsOf(getConfig)) :
    /\ clock' = (IF ticks = <<>> THEN clock ELSE ticks[Len(ticks)])
    /\ Returned(c, ticks, concatenated(getConfig, ticks))

\* the early return of searchActivityServer
ReturnEmpty ==
  /\ last' = [NotServed EXCEPT !.served = TRUE, !.repeated = last.served,
                               !.before = _config,
                               !.displaced = last.displaced]
  /\ UNCHANGED clock

\* the body of operation c.op
Serve(c) ==
  IF c.op = "searchActivityServer" /\ blankQuery(c.query)
    THEN ReturnEmpty
    ELSE Load(c)

Aggregate == Load(call)

GetRecentActivity ==
  /\ call.op = "getRecentActivityServer"
  /\ Aggregate
  /\ UNCHANGED <<_config, call>>

GetActivityByType ==
  /\ call.op = "getActivityByTypeServer"
  /\ Aggregate
  /\ UNCHANGED <<_config, call>>

GetActivityByCategory ==
  /\ call.op = "getActivityByCategoryServer"
  /\ Aggregate
  /\ UNCHANGED <<_config, call>>

GetActivityByTag ==
  /\ call.op = "getActivityByTagServer"
  /\ Aggregate
  /\ UNCHANGED <<_config, call>>

SearchActivity ==
  /\ call.op = "searchActivityServer"
  /\ Serve(call)
  /\ UNCHANGED <<_config, call>>

\* one call, possibly repeated, against one configuration
InitQuery ==
  /\ _config \in Configs
  /\ clock = MaxClock - 1
  /\ call \in Calls
  /\ last = NotServed

NextQuery ==
  \/ GetRecentActivity
  \/ GetActivityByType
  \/ GetActivityByCategory
  \/ GetActivityByTag
  \/ SearchActivity

SpecQuery == InitQuery /\ [][NextQuery]_vars

----------------------------------------------------------------------------
(* The configuration store: configure, resetConfig, getConfig, and the
   queries between them *)

\* the values a caller gives to a slot
StoreLoaders(slot) ==
  CASE slot = "loadBlogPosts" ->
         {Throws, Returns(<<PostTech>>), Returns(<<PostBare>>),
          UndefinedLoader}
    [] slot = "loadProfiles" -> {Returns(<<ProfJane>>), UndefinedLoader}
    [] slot = "loadProducts" -> {Returns(<<ProdTool>>)}

\* Partial<ActivityFeedConfig>: the objects that name some of the slots
Partials ==
  UNION { { partial \in [named -> UNION { StoreLoaders(s) : s \in Slots }] :
              \A s \in named : partial[s] \in StoreLoaders(s) } :
          named \in SUBSET Slots }

\* an assignment of the argument alone
configureReplaces(current, config) ==
  [s \in Slots |-> IF s \in DOMAIN config THEN config[s] ELSE NoLoader]

\* { ..._config, ...config }
configure(current, config) ==
  [s \in Slots |-> IF s \in DOMAIN config THEN config[s] ELSE current[s]]

\* a reset that leaves the store as it is
resetConfigKeeps == _config

\* _config = {}
resetConfig == EmptyConfig

\* a getConfig that hands out the store's own object
getConfigReturnsStore == TRUE

\* whether the object getConfig returns is the object the store holds: it
\* is a new object literal
getConfigAliases == FALSE

\* a loadAllActivity that unsets the loaders that throw
storeAfterLoadDropsFailing(current) ==
  [s \in Slots |-> IF current[s].kind = "throw" THEN NoLoader ELSE current[s]]

\* the store after a query: loadAllActivity and the query operations
\* assign nothing to it
storeAfterLoad(current) == current

\* the calls made between the calls of the store
StoreCalls ==
  { Call("getRecentActivityServer", Undefined, Undefined, <<>>, <<>>, NoLimit),
    Call("getActivityByTypeServer", "post", Undefined, <<>>, <<>>, NoLimit),
    Call("getActivityByCategoryServer", Undefined, "Tech", <<>>, <<>>,
         NoLimit),
    Call("getActivityByTagServer", Undefined, Undefined, T_sv, <<>>, NoLimit),
    Call("searchActivityServer", Undefined, Undefined, <<>>, <<"S", "V">>,
         NoLimit),
    Call("searchActivityServer", Undefined, Undefined, <<>>, <<" ">>,
         NoLimit) }

QueryOps ==
  {"getRecentActivityServer", "getActivityByTypeServer",
   "getActivityByCategoryServer", "getActivityByTagServer",
   "searchActivityServer"}

\* the record of a call that does not load
Made ==
  [NotServed EXCEPT !.served = TRUE, !.repeated = last.served,
                    !.before = _config, !.displaced = last.displaced]

\* the record of a call that assigns the store
Assigned == [Made EXCEPT !.displaced = _config["loadBlogPosts"]]

Configure ==
  \E partial \in Partials :
    /\ call' = [op |-> "configure", partial |-> partial]
    /\ _config' = configure(_config, partial)
    /\ last' = Assigned
    /\ UNCHANGED clock

ResetConfig ==
  /\ call' = [op |-> "resetConfig"]
  /\ _config' = resetConfig
  /\ last' = Assigned
  /\ UNCHANGED clock

GetConfig ==
  /\ call' = [op |-> "getConfig"]
  /\ last' = [Made EXCEPT !.returned = getConfig,
                          !.aliased = getConfigAliases]
  /\ UNCHANGED <<_config, clock>>

\* the caller assigns to a field of the object getConfig returned, or
\* deletes it
MutateReturned ==
  /\ call.op = "getConfig"
  /\ \E s \in Slots : \E v \in StoreLoaders(s) \cup {NoLoader} :
       /\ v # last.returned[s]
       /\ call' = [op |-> "mutate", slot |-> s, value |-> v]
       /\ last' = [last EXCEPT !.returned[s] = v, !.before = _config]
       /\ _config' = (IF last.aliased THEN [_config EXCEPT ![s] = v]
                                      ELSE _config)
  /\ UNCHANGED clock

\* call c is made
Query(c) ==
  /\ call' = c
  /\ Serve(c)
  /\ _config' = storeAfterLoad(_config)

StoreGetRecentActivity ==
  \E c \in StoreCalls : c.op = "getRecentActivityServer" /\ Query(c)

StoreGetActivityByType ==
  \E c \in StoreCalls : c.op = "getActivityByTypeServer" /\ Query(c)

StoreGetActivityByCategory ==
  \E c \in StoreCalls : c.op = "getActivityByCategoryServer" /\ Query(c)

StoreGetActivityByTag ==
  \E c \in StoreCalls : c.op = "getActivityByTagServer" /\ Query(c)

StoreSearchActivity ==
  \E c \in StoreCalls : c.op = "searchActivityServer" /\ Query(c)

\* the module as loaded: let _config = {}
Init ==
  /\ _config = EmptyConfig
  /\ clock = MaxClock - 1
  /\ call = [op |-> "none"]
  /\ last = NotServed

Next ==
  \/ Configure
  \/ ResetConfig
  \/ GetConfig
  \/ MutateReturned
  \/ StoreGetRecentActivity
  \/ StoreGetActivityByType
  \/ StoreGetActivityByCategory
  \/ StoreGetActivityByTag
  \/ StoreSearchActivity

Spec == Init /\ [][Next]_vars

----------------------------------------------------------------------------
(* One raw item of any shape, aggregated and queried *)

\* the excerpt and description of a raw item
ExcerptFields ==
  { <<T_x, UndefinedText>>, <<UndefinedText, T_sv>>, <<<<>>, UndefinedText>>,
    <<UndefinedText, UndefinedText>> }

TagFields == {NoArray, Arr(<<>>), Arr(<<T_sv>>)}

ItemPosts ==
  { BlogPostItem(T_Svt, <<"p", "1">>, e[1], e[2], d[1], d[2], a, "tech",
                 NoArray, t, p, f) :
      e \in ExcerptFields,
      d \in { <<"2025-01-01", Undefined>>, <<Undefined, "2025-02-01">>,
              <<"", Undefined>>, <<Undefined, Undefined>> },
      a \in {AuthorObject(T_jd), AuthorUndefined},
      t \in TagFields,
      p \in {"true", "false", Undefined, "0"},
      f \in {"true", "false", Undefined, "1"} }

\* posts that differ in their author: an object, a string, the empty
\* string, none, null
ItemAuthorPosts ==
  { BlogPostItem(T_Svt, <<"p", "1">>, T_x, UndefinedText, "2025-01-01",
                 Undefined, a, "tech", NoArray, NoArray, Undefined,
                 Undefined) :
      a \in {AuthorObject(T_jd), AuthorString(T_Sv), AuthorString(<<>>),
             AuthorUndefined, AuthorNull} }

ItemProfiles ==
  { ProfileItem(n[1], n[2], <<"j">>, b, d[1], d[2], d[3], r, t[1], t[2]) :
      n \in { <<T_jd, UndefinedText>>, <<UndefinedText, T_sv>>,
              <<UndefinedText, UndefinedText>> },
      b \in {UndefinedText, T_x},
      d \in { <<"2025-04-01T00:00:00.000Z", Undefined, Undefined>>,
              <<Undefined, "2025-03-01", Undefined>>,
              <<Undefined, Undefined, "2025-02-01">>,
              <<Undefined, Undefined, Undefined>> },
      r \in {Undefined, "admin"},
      t \in { <<NoArray, NoArray>>, <<Arr(<<T_Sv>>), NoArray>>,
              <<NoArray, Arr(<<T_sv>>)>>, <<Arr(<<>>), Arr(<<T_sv>>)>> } }

ItemProducts ==
  { ProductItem(T_Svt, <<"t">>, e[1], e[2], d[1], d[2], c, t, l) :
      e \in ExcerptFields,
      d \in { <<"2025-04-01", Undefined>>, <<Undefined, "not-a-date">>,
              <<Undefined, Undefined>> },
      c \in {Undefined, "tools"},
      t \in TagFields,
      l \in {Undefined, "MIT"} }

ItemRaws(slot) ==
  CASE slot = "loadBlogPosts" -> ItemPosts \cup ItemAuthorPosts
    [] slot = "loadProfiles" -> ItemProfiles
    [] slot = "loadProducts" -> ItemProducts

\* one call of each operation, more for the other types and for the
\* categories of profiles and products
ItemCalls ==
  { c \in Calls :
      /\ c.limit = NoLimit
      /\ c.category \in {Undefined, "tech"}
      /\ c.tag \in {<<>>, T_sv}
      /\ c.query \in {<<>>, <<"S", "V">>}
      /\ c.op = "getActivityByTagServer" => c.tag = T_sv
      /\ c.op = "searchActivityServer" => c.query = <<"S", "V">> }
  \cup { Call("getActivityByCategoryServer", Undefined, c, <<>>, <<>>,
               NoLimit) : c \in {"product", "profile", "tools"} }

\* one loader is configured and returns one raw item
InitItems ==
  /\ \E s \in Slots : \E raw \in ItemRaws(s) :
       _config = [EmptyConfig EXCEPT ![s] = Returns(<<raw>>)]
  /\ clock = MaxClock - 1
  /\ call \in ItemCalls
  /\ last = NotServed

SpecItems == InitItems /\ [][NextQuery]_vars

----------------------------------------------------------------------------
(* Equal dates, missing dates and unparseable dates in one aggregate *)

T_sw == <<"s", "w">>

\* two posts that carry no date field and the tag "sv"
PostNews ==
  BlogPostItem(T_sw, <<"n", "1">>, UndefinedText, UndefinedText, Undefined,
               Undefined, AuthorUndefined, Undefined, NoArray, Arr(<<T_sv>>),
               Undefined, Undefined)
PostMemo ==
  BlogPostItem(T_sw, <<"n", "2">>, UndefinedText, UndefinedText, Undefined,
               Undefined, AuthorUndefined, Undefined, NoArray, Arr(<<T_sv>>),
               Undefined, Undefined)
\* a product of the same day as ProdTool and ProfJane
ProdKit ==
  ProductItem(T_sw, <<"k", "t">>, UndefinedText, UndefinedText, "2025-04-01",
              Undefined, "tools", Arr(<<T_sv>>), Undefined)

\* the loaders of each slot in this scenario
OrderLoaders(slot) ==
  CASE slot = "loadBlogPosts" ->
         {NoLoader, Returns(<<PostTech>>), Returns(<<PostNews, PostMemo>>)}
    [] slot = "loadProfiles" -> {NoLoader, Returns(<<ProfJane>>)}
    [] slot = "loadProducts" ->
         {NoLoader, Returns(<<ProdTool, ProdKit>>),
          Returns(<<ProdTool, ProdJunk>>)}

\* one call of each operation, and the two tags
OrderCalls ==
  { c \in Calls :
      /\ c.limit = NoLimit
      /\ c.type \in {Undefined, "product"}
      /\ c.category \in {Undefined, "tools"}
      /\ c.op = "searchActivityServer" => c.query = <<"S", "V">> }

InitOrder ==
  /\ _config \in [Slots -> UNION { OrderLoaders(s) : s \in Slots }]
  /\ \A s \in Slots : _config[s] \in OrderLoaders(s)
  /\ clock = MaxClock - 1
  /\ call \in OrderCalls
  /\ last = NotServed

SpecOrder == InitOrder /\ [][NextQuery]_vars

----------------------------------------------------------------------------
(* Loaders that call configure or resetConfig while a query runs *)

\* a loader that calls configure(partial) or resetConfig() and then
\* returns the items, or then throws
Reentering(items, op, partial) ==
  [kind |-> "ok", items |-> items, reenters |-> op, partial |-> partial]
ReenteringThrows(op, partial) ==
  [kind |-> "throw", items |-> <<>>, reenters |-> op, partial |-> partial]

Only(slot, loader) == [s \in {slot} |-> loader]

ReenteringLoaders(slot) ==
  CASE slot = "loadBlogPosts" ->
         {Returns(<<PostTech>>),
          Reentering(<<PostTech>>, "configure",
                     Only("loadProfiles", Returns(<<ProfJane>>))),
          Reentering(<<PostTech>>, "configure",
                     Only("loadProducts", Returns(<<ProdKit>>))),
          Reentering(<<PostTech>>, "resetConfig", <<>>)}
    [] slot = "loadProfiles" ->
         {Returns(<<ProfJane>>),
          ReenteringThrows("configure",
                           Only("loadBlogPosts", Returns(<<PostTech>>)))}
    [] slot = "loadProducts" -> {Returns(<<ProdTool>>), Returns(<<ProdKit>>)}

ReenteringPartials ==
  UNION { { partial \in
              [named -> UNION { ReenteringLoaders(s) : s \in Slots }] :
              \A s \in named : partial[s] \in ReenteringLoaders(s) } :
          named \in SUBSET Slots }

\* the store once a call of the loader has ended
entered(loader, store) ==
  IF "reenters" \notin DOMAIN loader THEN store
  ELSE IF loader.reenters = "configure" THEN configure(store, loader.partial)
  ELSE resetConfig

\* a block that reads its loader from the store
blockLoaderFromStore(config, store, slot) == store[slot]

\* config.loadX, where config is the copy made by `const config =
\* getConfig()' when loadAllActivity began
blockLoader(config, store, slot) == config[slot]

\* one block of loadAllActivity; st.so is as in loadSource, st.store is the
\* store as the loaders called so far have left it
block(slot, loader, st) ==
  [so |-> loadSource(slot, loader, st.so),
   store |-> IF st.so.threw \/ ~Configured(loader) THEN st.store
             ELSE entered(loader, st.store)]

blockOf(slot, config, st) ==
  block(slot, blockLoader(config, st.store, slot), st)

\* the three blocks in order, begun with the store holding `store'
loadAllActivity(config, store, ticks) ==
  blockOf("loadProducts", config,
    blockOf("loadProfiles", config,
      blockOf("loadBlogPosts", config,
              [so |-> [activities |-> <<>>, ticks |-> ticks,
                       threw |-> FALSE, invoked |-> <<>>],
               store |-> store])))

ReenteringCalls == { c \in StoreCalls : ~blankQuery(c.query) \/ c.op # "searchActivityServer" }

\* call c is made; its loaders may assign the store
QueryReentered(c) ==
  /\ call' = c
  /\ \E ticks \in Readings(clock, readsOf(getConfig)) :
       /\ clock' = (IF ticks = <<>> THEN clock ELSE ticks[Len(ticks)])
       /\ Returned(c, ticks,
                   Outcome(loadAllActivity(getConfig, _config, ticks).so))
       /\ _config' = loadAllActivity(getConfig, _config, ticks).store

ConfigureReentering ==
  \E partial \in ReenteringPartials :
    /\ call' = [op |-> "configure", partial |-> partial]
    /\ _config' = configure(_config, partial)
    /\ last' = Assigned
    /\ UNCHANGED clock

ReenteredGetRecentActivity ==
  \E c \in ReenteringCalls :
    c.op = "getRecentActivityServer" /\ QueryReentered(c)

ReenteredGetActivityByType ==
  \E c \in ReenteringCalls :
    c.op = "getActivityByTypeServer" /\ QueryReentered(c)

ReenteredGetActivityByCategory ==
  \E c \in ReenteringCalls :
    c.op = "getActivityByCategoryServer" /\ QueryReentered(c)

ReenteredGetActivityByTag ==
  \E c \in ReenteringCalls :
    c.op = "getActivityByTagServer" /\ QueryReentered(c)

ReenteredSearchActivity ==
  \E c \in ReenteringCalls :
    c.op = "searchActivityServer" /\ QueryReentered(c)

NextReentrant ==
  \/ ConfigureReentering
  \/ ResetConfig
  \/ ReenteredGetRecentActivity
  \/ ReenteredGetActivityByType
  \/ ReenteredGetActivityByCategory
  \/ ReenteredGetActivityByTag
  \/ ReenteredSearchActivity

SpecReentrant == Init /\ [][NextReentrant]_vars

----------------------------------------------------------------------------
(* Properties *)

\* the elements of arr that satisfy the filter of the call, in order
Matches(arr) ==
  LET Test(x) ==
        CASE call.op = "getRecentActivityServer" -> TRUE
          [] call.op = "getActivityByTypeServer" -> x.type = call.type
          [] call.op = "getActivityByCategoryServer" ->
               x.category = call.category \/ x.productCategory = call.category
          [] call.op = "getActivityByTagServer" ->
               \E i \in DOMAIN x.tags : x.tags[i] = call.tag
          [] call.op = "searchActivityServer" ->
               ~blankQuery(call.query)
               /\ searchMatches(x, toLowerCase(call.query))
  IN SelectSeq(arr, Test)

Min(a, b) == IF a < b THEN a ELSE b

IsPrefix(s, t) == Len(s) <= Len(t) /\ s = SubSeq(t, 1, Len(s))

\* the type of the items a slot contributes
TypeOf(slot) ==
  CASE slot = "loadBlogPosts" -> "post"
    [] slot = "loadProfiles" -> "profile"
    [] slot = "loadProducts" -> "product"

\* what the call may return when slot s is taken out of the configuration,
\* the clock readings being those of the latest call
ResultsWithout(s) ==
  LET others == [_config EXCEPT ![s] = NoLoader]
      c == concatenated(others, last.ticks)
  IN { queryResult(call.op, Arg(call), call.limit, sorted) :
         sorted \in sortOutcomes(c.activities) }

\* C1: when a configured loader throws on invocation, no exception reaches
\* the caller of the query, and the result is what the same query returns
\* from the other configured sources alone.
C1_ThrowingLoaderIsolated ==
  last.loaded =>
    \A s \in Slots :
      _config[s] = Throws =>
        ~last.threw /\ last.result \in ResultsWithout(s)

C1_Witness ==
  /\ last.loaded
  /\ \E s \in Slots : _config[s] = Throws
  /\ last.result # <<>>

\* the loading of slot s failed: the loader threw, or normalizing one of the
\* values it returned threw
SourceFailed(s) ==
  \/ _config[s] = Throws
  \/ _config[s].kind = "ok"
       /\ \E i \in DOMAIN _config[s].items : IsNull(_config[s].items[i])

\* C2: when the loading of a source fails, the aggregate holds no item
\* derived from that source.
C2_NoPartialResults ==
  last.loaded /\ ~last.threw =>
    \A s \in Slots :
      SourceFailed(s) =>
        \A i \in DOMAIN last.allActivity :
          last.allActivity[i].type # TypeOf(s)

\* C3: with no loader configured, or every configured loader throwing, each
\* query operation returns an empty sequence and does not fail.
C3_NothingLoadedIsEmpty ==
  last.served /\ (\A s \in Slots : _config[s] \in {NoLoader, Throws}) =>
    ~last.threw /\ last.result = <<>>

C3_Witness ==
  /\ last.loaded
  /\ \A s \in Slots : _config[s] \in {NoLoader, Throws}
  /\ \E s \in Slots : _config[s] = Throws
  /\ \E s \in Slots : _config[s] = NoLoader

\* timestamp a >= timestamp b, as the comparison of two numbers (false when
\* either is NaN)
AtLeast(a, b) == a # NaN /\ b # NaN /\ a >= b

DateDescending(arr) ==
  \A i \in 1..(Len(arr) - 1) :
    AtLeast(getTime(arr[i].date), getTime(arr[i + 1].date))

AllDatesParse(arr) == \A i \in DOMAIN arr : getTime(arr[i].date) # NaN

\* C4 as stated: every result is in date-descending order.
C4_AlwaysDateDescending == last.served => DateDescending(last.result)

\* what holds of C4: when the date of every aggregated item parses to a
\* timestamp, every result is in date-descending order.
C4_DateDescendingWhenDatesParse ==
  last.served /\ AllDatesParse(last.allActivity) => DateDescending(last.result)

C4_Witness ==
  /\ last.served
  /\ AllDatesParse(last.allActivity)
  /\ Len(last.result) = 2
  /\ getTime(last.result[1].date) > getTime(last.result[2].date)
  /\ last.activities[1] = last.result[2]

\* C5 as stated: for every integer limit n, getRecentActivityServer(n)
\* returns at most n items, a leading part of the aggregate.
C5_AtMostLimitForEveryInteger ==
  last.served /\ call.op = "getRecentActivityServer" /\ call.limit # NoLimit =>
    Len(last.result) <= call.limit[1] /\ IsPrefix(last.result, last.allActivity)

\* C5 (amended): for every integer limit n, getRecentActivityServer(n)
\* returns a leading part of the aggregate; it has min(n, size) items when
\* n >= 0 and max(size + n, 0) items (the aggregate without its last -n
\* items) when n < 0.
C5_RecentIsLeadingPart ==
  last.served /\ call.op = "getRecentActivityServer" /\ call.limit # NoLimit =>
    LET n == call.limit[1]
        size == Len(last.allActivity)
    IN /\ IsPrefix(last.result, last.allActivity)
       /\ n >= 0 => Len(last.result) = Min(n, size)
       /\ n < 0 => Len(last.result) = (IF size + n < 0 THEN 0 ELSE size + n)

C5_Witness ==
  /\ last.served
  /\ call.op = "getRecentActivityServer"
  /\ call.limit = Limit(1)
  /\ Len(last.allActivity) = 2
  /\ last.result = <<last.allActivity[1]>>
  /\ last.allActivity[1] # last.allActivity[2]

\* every raw value the configured loaders return has a non-empty date field
\* that its normalizer reads
Dated(slot, raw) ==
  IF IsNull(raw) THEN TRUE
  ELSE CASE slot = "loadBlogPosts" -> Truthy(raw.date) \/ Truthy(raw.publishedAt)
         [] slot = "loadProfiles" ->
              Truthy(raw.publishedAt) \/ Truthy(raw.updatedAt)
              \/ Truthy(raw.joinedDate)
         [] slot = "loadProducts" ->
              Truthy(raw.publishedAt) \/ Truthy(raw.updatedAt)

AllDated ==
  \A s \in Slots :
    \A i \in DOMAIN _config[s].items : Dated(s, _config[s].items[i])

\* C6 as stated: repeating a call, with the configuration and the loader
\* outputs unchanged, returns the result of the call before it.
C6_RepeatedCallSameResult ==
  [][last.served /\ last'.served => last'.result = last.result]_vars

\* C6 (amended): repeating a call, with the configuration and the loader
\* outputs unchanged, returns the result of the call before it, provided
\* every raw item the loaders return carries one of its date fields.
C6_RepeatedCallSameResultWhenDated ==
  [][last.served /\ last'.served /\ AllDated
       => last'.result = last.result /\ last'.threw = last.threw]_vars

C6_Witness ==
  /\ last.repeated
  /\ AllDated
  /\ Len(last.result) = 2

\* C7: limit 0 returns nothing, an omitted limit returns all matches, a
\* limit k >= 0 returns the first min(k, matches) matches;
\* getRecentActivityServer() returns the first min(10, size) items.
C7_LimitSemantics ==
  last.served /\ ~last.threw =>
    LET matches == Matches(last.allActivity)
    IN /\ call.limit = Limit(0) => last.result = <<>>
       /\ call.limit = NoLimit /\ call.op # "getRecentActivityServer"
            => last.result = matches
       /\ call.limit # NoLimit /\ call.limit[1] >= 0
            => last.result =
                 SubSeq(matches, 1, Min(call.limit[1], Len(matches)))
       /\ call.limit = NoLimit /\ call.op = "getRecentActivityServer"
            => last.result =
                 SubSeq(last.allActivity, 1, Min(10, Len(last.allActivity)))

C7_Witness ==
  /\ last.served
  /\ call.op # "getRecentActivityServer"
  /\ call.limit = Limit(0)
  /\ Matches(last.allActivity) # <<>>

\* the default limit cuts an aggregate of more than ten items
C7_DefaultLimitReached ==
  /\ last.served
  /\ call.op = "getRecentActivityServer"
  /\ call.limit = NoLimit
  /\ Len(last.allActivity) > 10
  /\ Len(last.result) = 10

\* C8: getActivityByTypeServer(t) without limit returns exactly the items
\* of the aggregate whose type is t, in aggregate order.
C8_ByTypeExact ==
  last.served /\ call.op = "getActivityByTypeServer" /\ call.limit = NoLimit =>
    /\ last.result = Matches(last.allActivity)
    /\ \A i \in DOMAIN last.result : last.result[i].type = call.type

C8_Witness ==
  /\ last.served
  /\ call.op = "getActivityByTypeServer"
  /\ call.limit = NoLimit
  /\ Len(last.result) = 1
  /\ \E i \in DOMAIN last.allActivity : last.allActivity[i].type # call.type

\* C9: getActivityByCategoryServer(c) without limit returns an item of the
\* aggregate iff its category or its productCategory is exactly c.
C9_ByCategoryExact ==
  last.served /\ call.op = "getActivityByCategoryServer"
    /\ call.limit = NoLimit =>
      /\ last.result = Matches(last.allActivity)
      /\ \A i \in DOMAIN last.allActivity :
           (\E j \in DOMAIN last.result : last.result[j] = last.allActivity[i])
             <=> (\/ last.allActivity[i].category = call.category
                  \/ last.allActivity[i].productCategory = call.category)

C9_Witness ==
  /\ last.served
  /\ call.op = "getActivityByCategoryServer"
  /\ call.limit = NoLimit
  /\ call.category = "Tech"
  /\ Len(last.result) = 1
  /\ last.result[1].productCategory = "Tech"
  /\ \E i \in DOMAIN last.allActivity : last.allActivity[i].category = "tech"

\* C10: getActivityByTagServer(t) without limit returns an item of the
\* aggregate iff its tags contain an element exactly equal to t; an item
\* without tags is never returned.
C10_ByTagExact ==
  last.served /\ call.op = "getActivityByTagServer" /\ call.limit = NoLimit =>
    /\ last.result = Matches(last.allActivity)
    /\ \A i \in DOMAIN last.result :
         /\ last.result[i].tags # <<>>
         /\ \E k \in DOMAIN last.result[i].tags :
              last.result[i].tags[k] = call.tag

C10_Witness ==
  /\ last.served
  /\ call.op = "getActivityByTagServer"
  /\ call.limit = NoLimit
  /\ call.tag = T_sv
  /\ Len(last.result) = 1
  /\ \E i \in DOMAIN last.allActivity : last.allActivity[i].tags = <<T_Sv>>

----------------------------------------------------------------------------
(* Search *)

OnlySpaces(text) == \A i \in DOMAIN text : text[i] = " "

SomeLoaderConfigured == \E s \in Slots : Configured(_config[s])

\* C11: a search whose query is empty or made of whitespace only returns
\* the empty sequence, whatever the configuration and the limit, and no
\* loader is called while it is served.
C11_BlankQueryReturnsEmptyWithoutLoading ==
  (last.served /\ call.op = "searchActivityServer" /\ OnlySpaces(call.query))
    => /\ last.result = <<>>
       /\ ~last.loaded
       /\ last.invoked = <<>>

\* a whitespace query served against a configuration whose loader returns
\* eleven items: none is returned and the loader is not called
C11_Witness ==
  /\ last.served
  /\ call.op = "searchActivityServer"
  /\ call.query = <<" ">>
  /\ call.limit = NoLimit
  /\ _config["loadProfiles"] = BulkLoader
  /\ last.invoked = <<>>
  /\ last.result = <<>>

\* sub occurs in text
Occurs(sub, text) ==
  \E a \in 0..Len(text) : \E b \in a..Len(text) : SubSeq(text, a + 1, b) = sub

\* the lower-cased query occurs in one of the lower-cased searched fields
Found(q, item) ==
  \/ Occurs(toLowerCase(q), toLowerCase(item.title))
  \/ Occurs(toLowerCase(q), toLowerCase(item.excerpt))
  \/ item.author # UndefinedText
       /\ Occurs(toLowerCase(q), toLowerCase(item.author))
  \/ \E t \in { item.tags[i] : i \in DOMAIN item.tags } :
       Occurs(toLowerCase(q), toLowerCase(t))

\* the subsequence of arr at the positions whose item contains q
RECURSIVE Finds(_, _)
Finds(q, arr) ==
  IF arr = <<>> THEN <<>>
  ELSE IF Found(q, arr[Len(arr)])
    THEN Append(Finds(q, SubSeq(arr, 1, Len(arr) - 1)), arr[Len(arr)])
  ELSE Finds(q, SubSeq(arr, 1, Len(arr) - 1))

\* C12: a search with a non-blank query and no limit returns exactly the
\* items of the aggregate in which the lower-cased query occurs in the
\* lower-cased title, excerpt, author (when there is one) or a tag, each
\* position of the aggregate once, in the order of the aggregate.
C12_SearchExact ==
  (/\ last.served
   /\ call.op = "searchActivityServer"
   /\ ~OnlySpaces(call.query)
   /\ call.limit = NoLimit)
    => /\ last.loaded
       /\ last.result = Finds(call.query, last.allActivity)

\* a query in capitals that one item matches on its title and on a tag, in
\* lower case in both, and that the other item does not match
C12_Witness ==
  /\ last.served
  /\ call.op = "searchActivityServer"
  /\ call.query = <<"S", "V">>
  /\ call.limit = NoLimit
  /\ Len(last.allActivity) = 2
  /\ Len(last.result) = 1
  /\ Occurs(T_sv, toLowerCase(last.result[1].title))
  /\ \E i \in DOMAIN last.result[1].tags : last.result[1].tags[i] = T_sv

----------------------------------------------------------------------------
(* The configuration store *)

\* C13: configure(partial) leaves every slot that partial names holding
\* the value partial gives it, and every other slot holding what it held
\* before the call; configure({}) changes nothing.
C13_ConfigureIsShallowMerge ==
  call.op = "configure"
    => /\ \A s \in Slots :
            IF s \in DOMAIN call.partial
              THEN _config[s] = call.partial[s]
              ELSE _config[s] = last.before[s]
       /\ (DOMAIN call.partial = {} => _config = last.before)

\* a configure that replaces the loader of one slot by another loader and
\* does not name a slot that holds a loader
C13_Witness ==
  /\ call.op = "configure"
  /\ DOMAIN call.partial = {"loadBlogPosts"}
  /\ last.before["loadBlogPosts"] = Returns(<<PostTech>>)
  /\ _config["loadBlogPosts"] = Returns(<<PostBare>>)
  /\ last.before["loadProfiles"] = Returns(<<ProfJane>>)
  /\ _config["loadProfiles"] = Returns(<<ProfJane>>)

\* C14: assigning to or deleting a field of the object getConfig returned
\* leaves the stored configuration as it was, and getConfig returns the
\* slots as they are stored.
C14_ReturnedConfigIsIndependent ==
  /\ call.op = "mutate" => _config = last.before
  /\ call.op = "getConfig" => last.returned = _config /\ _config = last.before

\* the caller has deleted the loader of a slot from the returned object
\* and the store still holds it
C14_Witness ==
  /\ call.op = "mutate"
  /\ call.slot = "loadBlogPosts"
  /\ call.value = NoLoader
  /\ last.returned["loadBlogPosts"] = NoLoader
  /\ _config["loadBlogPosts"] = Returns(<<PostTech>>)

\* C15: resetConfig leaves all three slots unset, whatever was configured;
\* with all slots unset getConfig returns the empty configuration and
\* every query returns the empty sequence without calling a loader; the
\* store starts out in that configuration.
C15_ResetClearsAllSlots ==
  /\ call.op = "resetConfig" => \A s \in Slots : _config[s] = NoLoader
  /\ (call.op = "getConfig" /\ \A s \in Slots : _config[s] = NoLoader)
       => last.returned = EmptyConfig
  /\ (call.op \in QueryOps /\ \A s \in Slots : _config[s] = NoLoader)
       => last.result = <<>> /\ last.invoked = <<>>
  /\ call.op = "none" => \A s \in Slots : _config[s] = NoLoader

\* a reset of a store in which all three slots held a loader
C15_Witness ==
  /\ call.op = "resetConfig"
  /\ \A s \in Slots : last.before[s].kind \in {"ok", "throw"}
  /\ _config = EmptyConfig

\* the slots whose loader the latest call invoked
Invoked(record) == { record.invoked[i] : i \in DOMAIN record.invoked }

\* C20: a query call leaves the configuration as it found it, whether the
\* loaders return items, return nothing or throw; a loader that threw in
\* one query is still configured and is called by the next query that
\* aggregates.
C20_QueriesLeaveConfigAlone ==
  [][call'.op \in QueryOps
       => /\ _config' = _config
          /\ last'.before = _config
          /\ \A s \in Slots :
               (last'.loaded /\ _config[s].kind = "throw")
                 => s \in Invoked(last')]_vars

\* a query served after another call, with a loader that throws still in
\* its slot and called, and the other sources' items returned
C20_Witness ==
  /\ call.op = "getRecentActivityServer"
  /\ last.repeated
  /\ last.before = _config
  /\ _config["loadBlogPosts"] = Throws
  /\ "loadBlogPosts" \in Invoked(last)
  /\ Len(last.result) = 2

----------------------------------------------------------------------------
(* Normalization *)

\* the slot of the one loader of the configuration, and the item it returns
TheSlot == CHOOSE s \in Slots : _config[s].kind = "ok"

TheRaw == _config[TheSlot].items[1]

\* C16: a raw post is left out of the aggregate, and so of every result,
\* exactly when published is the boolean false or draft is the boolean
\* true; with any other values it is aggregated, as every profile and
\* every product is.
C16_ExcludedIffUnpublishedOrDraft ==
  last.served =>
    IF TheSlot = "loadBlogPosts"
         /\ (TheRaw.published = "false" \/ TheRaw.draft = "true")
      THEN last.allActivity = <<>> /\ last.result = <<>>
      ELSE /\ Len(last.allActivity) = 1
           /\ last.allActivity[1].slug = TheRaw.slug
           /\ call.op = "getRecentActivityServer"
                => last.result = last.allActivity

\* a post whose published and draft fields hold the numbers 0 and 1 is
\* returned
C16_Witness ==
  /\ last.served
  /\ call.op = "getRecentActivityServer"
  /\ TheSlot = "loadBlogPosts"
  /\ TheRaw.published = "0"
  /\ TheRaw.draft = "1"
  /\ Len(last.result) = 1

----------------------------------------------------------------------------
(* The aggregate as the union of the sources *)

\* the positions of the raw items that the configured loaders return and
\* that are not unpublished or draft posts
Included ==
  { pos \in Slots \X (1..(DefaultLimit + 1)) :
      /\ _config[pos[1]].kind = "ok"
      /\ pos[2] <= Len(_config[pos[1]].items)
      /\ LET raw == _config[pos[1]].items[pos[2]]
         IN /\ ~IsNull(raw)
            /\ pos[1] = "loadBlogPosts"
                 => ~(raw.published = "false" \/ raw.draft = "true") }

\* item is what the normalizer of the slot makes of the raw item at pos,
\* the clock, if read, giving one of the readings of the call
NormalizationOf(item, pos) ==
  LET raw == _config[pos[1]].items[pos[2]]
  IN \/ item = Normalize(pos[1], raw, Undefined)
     \/ \E i \in DOMAIN last.ticks :
          item = Normalize(pos[1], raw, toISOString(last.ticks[i]))

EveryLoaderSucceeds ==
  \A s \in Slots :
    /\ _config[s].kind # "throw"
    /\ \A i \in DOMAIN _config[s].items : ~IsNull(_config[s].items[i])

\* C17: when no loader fails, getRecentActivityServer with a limit of at
\* least the number of items returns one item for each raw post that is not
\* excluded, each raw profile and each raw product, and nothing else; and
\* every item any query returns is the normalization of a raw item that a
\* loader returned.
C17_AggregateIsNormalizedUnion ==
  last.served =>
    /\ \A k \in DOMAIN last.result :
         \E pos \in Included : NormalizationOf(last.result[k], pos)
    /\ (/\ EveryLoaderSucceeds
        /\ call.op = "getRecentActivityServer"
        /\ (IF call.limit = NoLimit THEN DefaultLimit ELSE call.limit[1])
             >= Cardinality(Included))
         => /\ Len(last.result) = Cardinality(Included)
            /\ \E f \in [Included -> DOMAIN last.result] :
                 /\ \A p, q \in Included : f[p] = f[q] => p = q
                 /\ \A p \in Included :
                      NormalizationOf(last.result[f[p]], p)

\* the post of one source and the product of another are both returned
C17_Witness ==
  /\ last.served
  /\ call.op = "getRecentActivityServer"
  /\ call.limit = NoLimit
  /\ _config["loadBlogPosts"] = Returns(<<PostTech>>)
  /\ _config["loadProfiles"] = NoLoader
  /\ _config["loadProducts"] = Returns(<<ProdTool>>)
  /\ Len(last.result) = 2
  /\ { last.result[k].type : k \in DOMAIN last.result } = {"post", "product"}

----------------------------------------------------------------------------
(* The fields of the returned items *)

Populated(value) == value # Undefined

\* C18 as stated: profileRole is populated exactly on profiles,
\* productCategory and license exactly on products, and the type is that
\* of the source.
C18_TypeFieldsPopulatedIffOwnType ==
  \A k \in DOMAIN last.result :
    LET item == last.result[k]
    IN /\ Populated(item.profileRole) <=> item.type = "profile"
       /\ Populated(item.productCategory) <=> item.type = "product"
       /\ Populated(item.license) <=> item.type = "product"
       /\ item.type \in Types
       /\ item.type = TypeOf(TheSlot)

\* C18, amended: profileRole is populated only on profiles, and there it
\* is the role of the raw profile, absent when that is absent;
\* productCategory and license are populated only on products, and there
\* they are the category and the license of the raw product, each absent
\* when that is absent; the type is that of the source.
C18_TypeFieldsOnlyOnOwnType ==
  \A k \in DOMAIN last.result :
    LET item == last.result[k]
    IN /\ item.profileRole =
            (IF TheSlot = "loadProfiles" THEN TheRaw.role ELSE Undefined)
       /\ item.productCategory =
            (IF TheSlot = "loadProducts" THEN TheRaw.category ELSE Undefined)
       /\ item.license =
            (IF TheSlot = "loadProducts" THEN TheRaw.license ELSE Undefined)
       /\ item.type \in Types
       /\ item.type = TypeOf(TheSlot)

\* a product with a category and no license is returned: productCategory
\* is populated, license is not
C18_Witness ==
  /\ last.served
  /\ call.op = "getActivityByTypeServer"
  /\ Len(last.result) = 1
  /\ last.result[1].type = "product"
  /\ last.result[1].productCategory = "tools"
  /\ ~Populated(last.result[1].license)
  /\ ~Populated(last.result[1].profileRole)

\* C19: every returned item has an excerpt, empty when the raw item has
\* neither excerpt nor description (bio for a profile); a date that is not
\* the empty string; and a tags sequence, empty when the raw item has no
\* tags (a profile: neither tags nor interests).
C19_ExcerptDateTagsAlwaysPresent ==
  \A k \in DOMAIN last.result :
    LET item == last.result[k]
        prose == IF TheSlot = "loadProfiles"
                   THEN {TheRaw.bio}
                   ELSE {TheRaw.excerpt, TheRaw.description}
        lists == IF TheSlot = "loadProfiles"
                   THEN {TheRaw.tags, TheRaw.interests}
                   ELSE {TheRaw.tags}
    IN /\ item.excerpt # UndefinedText
       /\ item.excerpt \in Seq({"s", "v", "x"})
       /\ prose \subseteq {UndefinedText, <<>>} => item.excerpt = <<>>
       /\ item.date \notin {Undefined, ""}
       /\ item.tags \in Seq({T_sv, T_Sv})
       /\ lists = {NoArray} => item.tags = <<>>

\* a post with no excerpt, no description, no date and no tags is returned
\* with the empty excerpt, the time of the call as its date and no tags
C19_Witness ==
  /\ last.served
  /\ call.op = "getRecentActivityServer"
  /\ TheSlot = "loadBlogPosts"
  /\ TheRaw.excerpt = UndefinedText
  /\ TheRaw.description = UndefinedText
  /\ TheRaw.date = Undefined
  /\ TheRaw.publishedAt = Undefined
  /\ TheRaw.tags = NoArray
  /\ Len(last.result) = 1
  /\ last.result[1].excerpt = <<>>
  /\ last.result[1].date = toISOString(last.ticks[1])
  /\ last.result[1].tags = <<>>

----------------------------------------------------------------------------
(* Queries between changes of the configuration *)

\* the slugs of the raw items that the loaders of the configuration return
SlugsOf(config) ==
  UNION { { config[s].items[i].slug : i \in DOMAIN config[s].items } :
          s \in { t \in Slots : config[t].kind = "ok" } }

\* item is made of a raw item that a loader of the configuration returns
FromConfig(item, config) ==
  \E s \in Slots :
    /\ config[s].kind = "ok"
    /\ item.type = TypeOf(s)
    /\ \E i \in DOMAIN config[s].items : config[s].items[i].slug = item.slug

\* C21: every item a query returns is made of a raw item that a loader of
\* the configuration in force returns, so none comes from a loader that
\* has been replaced or removed; and getRecentActivityServer returns an
\* item for every raw item of the configuration in force.
C21_ResultFromConfigInForce ==
  (call.op \in QueryOps /\ last.served) =>
    /\ \A k \in DOMAIN last.result : FromConfig(last.result[k], _config)
    /\ call.op = "getRecentActivityServer" =>
         { last.result[k].slug : k \in DOMAIN last.result } = SlugsOf(_config)

\* a query after the loader of loadBlogPosts was replaced by one that
\* returns another post: the new post is returned, the old one is not
C21_Witness ==
  /\ call.op = "getRecentActivityServer"
  /\ last.displaced = Returns(<<PostTech>>)
  /\ _config["loadBlogPosts"] = Returns(<<PostBare>>)
  /\ Len(last.result) = 1
  /\ last.result[1].slug = PostBare.slug

\* the slots that the latest configure call gave the value undefined
GivenUndefined ==
  { s \in DOMAIN call.partial : call.partial[s] = UndefinedLoader }

\* C30: configure with a key that holds undefined leaves that slot holding
\* undefined and the other slots as they were, unless the call names them
\* too; while a slot holds undefined, a query does not call a loader for it
\* and returns no item of its type.
C30_UndefinedClearsSlot ==
  /\ call.op = "configure" =>
       \A s \in Slots :
         _config[s] = (IF s \in GivenUndefined THEN UndefinedLoader
                       ELSE IF s \in DOMAIN call.partial THEN call.partial[s]
                       ELSE last.before[s])
  /\ (call.op \in QueryOps /\ last.served) =>
       \A s \in Slots :
         _config[s] = UndefinedLoader =>
           /\ s \notin Invoked(last)
           /\ \A k \in DOMAIN last.result : last.result[k].type # TypeOf(s)

\* a query after loadBlogPosts, which held a loader that returns a post,
\* was given undefined: the profile and the product are still returned
C30_Witness ==
  /\ call.op = "getRecentActivityServer"
  /\ last.displaced = Returns(<<PostTech>>)
  /\ _config["loadBlogPosts"] = UndefinedLoader
  /\ Invoked(last) = {"loadProfiles", "loadProducts"}
  /\ { last.result[k].type : k \in DOMAIN last.result }
       = {"profile", "product"}

----------------------------------------------------------------------------
(* A source that contributes nothing *)

\* a slot that is not set, a loader that throws, a loader that returns []
Silent == {NoLoader, Throws, Returns(<<>>)}

\* what the call may return when slot s holds loader, the clock readings
\* being those of the latest call
ResultsWith(s, loader) ==
  { queryResult(call.op, Arg(call), call.limit, sorted) :
      sorted \in sortOutcomes(
                   concatenated([_config EXCEPT ![s] = loader],
                                last.ticks).activities) }

\* C22: when a slot is not set, or its loader throws, or its loader returns
\* an empty array, no query fails and the result is one that the same
\* query, with the other two slots as they are, returns in each of the
\* three cases.
C22_SilentSourcesIndistinguishable ==
  /\ last.served /\ ~last.loaded => last.result = <<>>
  /\ last.loaded =>
       \A s \in Slots :
         _config[s] \in Silent =>
           /\ ~last.threw
           /\ \A loader \in Silent : last.result \in ResultsWith(s, loader)

\* one loader returns an empty array, another throws, the third returns
\* the items of the result
C22_Witness ==
  /\ last.loaded
  /\ _config["loadBlogPosts"] = Returns(<<>>)
  /\ _config["loadProfiles"] = Throws
  /\ _config["loadProducts"].kind = "ok"
  /\ Len(last.result) = 2
  /\ Invoked(last) = Slots

----------------------------------------------------------------------------
(* The author of a post *)

\* C23: the author of a post item is the name of the raw author when that
\* is an object, the raw author when that is a string that is not empty,
\* and "Unknown" otherwise; it is never absent.
C23_PostAuthor ==
  TheSlot = "loadBlogPosts" =>
    \A k \in DOMAIN last.allActivity :
      LET item == last.allActivity[k]
          raw == TheRaw.author
      IN /\ item.author # UndefinedText
         /\ raw.kind = "object" => item.author = raw.name
         /\ (raw.kind = "string" /\ raw.name # <<>>) => item.author = raw.name
         /\ (raw.kind = "string" /\ raw.name = <<>>) => item.author = T_Unknown
         /\ raw.kind \in {"undefined", "null"} => item.author = T_Unknown

\* a post whose author is the empty string is returned with the author
\* "Unknown"
C23_Witness ==
  /\ last.served
  /\ call.op = "getRecentActivityServer"
  /\ TheSlot = "loadBlogPosts"
  /\ TheRaw.author = AuthorString(<<>>)
  /\ Len(last.result) = 1
  /\ last.result[1].author = T_Unknown

----------------------------------------------------------------------------
(* The categories of profiles and products *)

\* C24: a product item has the category "product" and, as productCategory,
\* the category of the raw product; a profile item has the category
\* "profile"; so getActivityByCategoryServer returns a product for
\* "product" and for the category of the raw product, and a profile for
\* "profile".
C24_GeneralAndOwnCategory ==
  /\ \A k \in DOMAIN last.allActivity :
       LET item == last.allActivity[k]
       IN /\ item.type = "product" =>
               item.category = "product"
                 /\ item.productCategory = TheRaw.category
          /\ item.type = "profile" => item.category = "profile"
  /\ (last.served /\ call.op = "getActivityByCategoryServer") =>
       /\ (TheSlot = "loadProducts" /\ call.category = "product")
            => last.result = last.allActivity /\ Len(last.result) = 1
       /\ (TheSlot = "loadProfiles" /\ call.category = "profile")
            => last.result = last.allActivity /\ Len(last.result) = 1
       /\ (TheSlot = "loadProducts" /\ call.category = TheRaw.category)
            => last.result = last.allActivity /\ Len(last.result) = 1

\* a product is returned for the category of the raw product, its own
\* category being "product"
C24_Witness ==
  /\ last.served
  /\ call.op = "getActivityByCategoryServer"
  /\ call.category = "tools"
  /\ TheSlot = "loadProducts"
  /\ Len(last.result) = 1
  /\ last.result[1].category = "product"
  /\ last.result[1].productCategory = "tools"

----------------------------------------------------------------------------
(* Calls of the loaders *)

\* the number of calls of the loader of slot s during the latest call
TimesInvoked(s) ==
  Cardinality({ i \in DOMAIN last.invoked : last.invoked[i] = s })

\* C25: in a query that aggregates, the loader of every slot that is set
\* is called once and no loader is called for a slot that is not set; this
\* holds for a loader that throws and for the slots after it; the calls
\* are made in the order posts, profiles, products.
C25_EachSetLoaderInvokedOnce ==
  last.loaded =>
    /\ \A s \in Slots :
         TimesInvoked(s) = (IF _config[s].kind \in {"ok", "throw"} THEN 1 ELSE 0)
    /\ \A i, j \in DOMAIN last.invoked :
         (last.invoked[i] = "loadBlogPosts" /\ last.invoked[j] # "loadBlogPosts")
           \/ (last.invoked[i] = "loadProfiles"
                 /\ last.invoked[j] = "loadProducts")
           => i < j

\* the first loader throws, the second slot is not set, the third loader
\* is called and its items are returned
C25_Witness ==
  /\ last.loaded
  /\ _config["loadBlogPosts"] = Throws
  /\ _config["loadProfiles"] = NoLoader
  /\ last.invoked = <<"loadBlogPosts", "loadProducts">>
  /\ Len(last.result) = 2

----------------------------------------------------------------------------
(* Dates that do not parse *)

\* C26: no query lets an exception out, an item whose date does not parse
\* comes after every item whose date parses, and the items whose dates
\* parse are in date-descending order among themselves.
C26_UnparseableDateSortsLast ==
  last.served =>
    /\ ~last.threw
    /\ \A i, j \in DOMAIN last.result :
         i < j =>
           LET a == getTime(last.result[i].date)
               b == getTime(last.result[j].date)
           IN /\ a = NaN => b = NaN
              /\ (a # NaN /\ b # NaN) => a >= b

----------------------------------------------------------------------------
(* Items of equal date *)

\* the place of an item in the concatenation of the sources
PlaceOf(item) == CHOOSE k \in DOMAIN last.activities : last.activities[k] = item

SameTimestamp(a, b) ==
  getTime(a.date) # NaN /\ getTime(a.date) = getTime(b.date)

\* C28: items whose dates parse to the same timestamp appear in every
\* result in concatenation order (posts, profiles, products; within one
\* source as the loader returned them).
C28_TiesInConcatenationOrder ==
  last.served /\ last.loaded =>
    \A i, j \in DOMAIN last.result :
      i < j /\ SameTimestamp(last.result[i], last.result[j])
        => PlaceOf(last.result[i]) < PlaceOf(last.result[j])

\* the same, for aggregates in which every date parses
C28_TiesInConcatenationOrderWhenDatesParse ==
  AllDatesParse(last.allActivity) => C28_TiesInConcatenationOrder

----------------------------------------------------------------------------
(* Tag query and search query *)

\* a is b with some elements left out
RECURSIVE IsSubsequence(_, _)
IsSubsequence(a, b) ==
  IF a = <<>> THEN TRUE
  ELSE IF b = <<>> THEN FALSE
  ELSE IF a[1] = b[1] THEN IsSubsequence(Tail(a), Tail(b))
  ELSE IsSubsequence(a, Tail(b))

\* what searchActivityServer(query), without limit, can return when it is
\* the next call
SearchNext(query) ==
  UNION { { searchActivityServer(sorted, query, NoLimit) :
              sorted \in sortedBy(concatenated(getConfig, ticks).activities) } :
          ticks \in Readings(clock, readsOf(getConfig)) }

TagCallServed ==
  /\ last.served
  /\ call.op = "getActivityByTagServer"
  /\ call.limit = NoLimit
  /\ ~blankQuery(call.tag)

\* C29 as stated: for a non-blank string t, every item returned by
\* getActivityByTagServer(t) is returned by searchActivityServer(t), in the
\* same relative order (both without limit).
C29_TagResultWithinSearchResult ==
  TagCallServed => \A r \in SearchNext(call.tag) : IsSubsequence(last.result, r)

\* C29 (amended): the same, provided every raw item the loaders return
\* carries one of its date fields.
C29_TagResultWithinSearchResultWhenDated ==
  TagCallServed /\ AllDated =>
    \A r \in SearchNext(call.tag) : IsSubsequence(last.result, r)

\* a tag call that returned three items, followed by a search that returns
\* them and one more
C29_Witness ==
  /\ TagCallServed
  /\ AllDated
  /\ Len(last.result) = 3
  /\ \E r \in SearchNext(call.tag) : Len(r) = 4

----------------------------------------------------------------------------
(* Configuration changed while a query runs *)

\* the slots whose loader the copy made at the start holds, in the order of
\* the blocks
SetSlots(config) ==
  (IF Configured(config["loadBlogPosts"]) THEN <<"loadBlogPosts">> ELSE <<>>)
  \o (IF Configured(config["loadProfiles"]) THEN <<"loadProfiles">> ELSE <<>>)
  \o (IF Configured(config["loadProducts"]) THEN <<"loadProducts">> ELSE <<>>)

\* the store after the loaders of the slots have run in turn
RECURSIVE StoreLeft(_, _, _)
StoreLeft(slots, config, store) ==
  IF slots = <<>> THEN store
  ELSE StoreLeft(Tail(slots), config, entered(config[Head(slots)], store))

SomeLoaderReentered ==
  \E i \in DOMAIN last.invoked : "reenters" \in DOMAIN last.before[last.invoked[i]]

\* C27: a query calls the loaders of the configuration as it was when the
\* query began, whatever its loaders do to the store meanwhile, also in
\* the blocks reached after the change; the store holds the change when
\* the query has ended, for the queries that follow.
C27_InFlightQueryUsesSnapshot ==
  last.loaded =>
    /\ last.invoked = SetSlots(last.before)
    /\ last.activities = concatenated(last.before, last.ticks).activities
    /\ _config = StoreLeft(last.invoked, last.before, last.before)

\* the loader of posts has set another loader of products during a query:
\* the query returned the product of the loader it began with, and the
\* store holds the new loader
C27_Witness ==
  /\ last.loaded
  /\ SomeLoaderReentered
  /\ last.before["loadProducts"] = Returns(<<ProdTool>>)
  /\ _config["loadProducts"] = Returns(<<ProdKit>>)
  /\ \E i \in DOMAIN last.result : last.result[i].slug = <<"t">>
  /\ \A i \in DOMAIN last.result : last.result[i].slug # <<"k", "t">>

\* in the same way, a loader set during a query is called by the next query
C27_NextQueryWitness ==
  /\ last.loaded /\ last.repeated
  /\ last.before["loadProfiles"] = Returns(<<ProfJane>>)
  /\ "reenters" \in DOMAIN last.before["loadBlogPosts"]
  /\ last.invoked = <<"loadBlogPosts", "loadProfiles">>

====
